---- MODULE Spec2Model ----
(***************************************************************************)
(* Model of app/services/coingecko.py: CoinGeckoClient.get_prices, the     *)
(* price cache and fetch coordinator shared by every request handler.      *)
(*                                                                         *)
(* get_prices is a coroutine on a single asyncio event loop. Its only      *)
(* suspension point is the await of the upstream GET (line 44), so it runs *)
(* as two atomic sections: Call (lines 31-47, up to a return or to the     *)
(* await) and Respond (lines 48-72, from the arrival of the upstream       *)
(* outcome to a return or to an escaping exception).                       *)
(***************************************************************************)
EXTENDS Integers, Sequences, FiniteSets, TLC

VARIABLES
    cache,            \* self._cache: identifier -> price
    cache_timestamp,  \* self._cache_timestamp
    now,              \* time.time()
    pending,          \* per task: the get_prices call suspended at the await
    ev,               \* history: the most recent get_prices step
    hist,             \* history: what a specification remembers of earlier steps
    assets,           \* the assets table (app/models/asset.py)
    reply             \* history: the answer to the most recent assets request

vars == <<cache, cache_timestamp, now, pending, ev, hist, assets, reply>>

\* What the price client never touches, and what the assets routes never touch
aside == <<hist, assets, reply>>
prices_state == <<cache, cache_timestamp, now, pending, ev, hist>>

----------------------------------------------------------------------------
(* Bounds and input domains                                                *)

MaxList == 2      \* longest input list handed to get_prices
MaxTicks == 2     \* clock advances considered

CACHE_TTL == 60

Tasks == {"t1", "t2"}

Prices == {1, 2}

\* Raw identifiers as character sequences: mixed case, surrounding blanks.
RawStrings ==
    { <<"b">>, <<" ", "B", " ">>, <<"E", " ">> }

Whitespace == {" "}

TickSteps == {CACHE_TTL \div 2}

\* time.time() at construction: the epoch clock is far beyond one TTL.
StartTime == 2 * CACHE_TTL

RECURSIVE SeqsUpTo(_, _)
SeqsUpTo(S, n) ==
    IF n = 0 THEN {<<>>}
    ELSE LET shorter == SeqsUpTo(S, n - 1)
         IN  shorter \cup {Append(s, x) : s \in {q \in shorter : Len(q) = n - 1}, x \in S}

RawInputs == SeqsUpTo(RawStrings, MaxList)

Range(s) == {s[i] : i \in 1..Len(s)}

----------------------------------------------------------------------------
(* Mappings (Python dicts)                                                 *)

EmptyMap == [x \in {} |-> 0]

Put(m, k, v) == [x \in DOMAIN m \cup {k} |-> IF x = k THEN v ELSE m[x]]

\* dict.get(k, default)
Get(m, k, default) == IF k \in DOMAIN m THEN m[k] ELSE default

----------------------------------------------------------------------------
(* Line 34: coin_ids = list(set(c.lower().strip() for c in coin_ids))      *)

LowerChar(ch) ==
    CASE ch = "B" -> "b"
      [] ch = "E" -> "e"
      [] OTHER -> ch

Lower(s) == [i \in 1..Len(s) |-> LowerChar(s[i])]

RECURSIVE LStrip(_)
LStrip(s) ==
    IF s # <<>> /\ Head(s) \in Whitespace THEN LStrip(Tail(s)) ELSE s

RECURSIVE RStrip(_)
RStrip(s) ==
    IF s # <<>> /\ s[Len(s)] \in Whitespace
    THEN RStrip(SubSeq(s, 1, Len(s) - 1)) ELSE s

Strip(s) == RStrip(LStrip(s))

\* Variant: the strip() is forgotten
NormalizeIdNoStrip(c) == Lower(c)

NormalizeId(c) == Strip(Lower(c))

NormalizedSet(raw) == {NormalizeId(raw[i]) : i \in 1..Len(raw)}

\* list(set(...)): every ordering of the set is a possible list
Orderings(S) == {s \in [1..Cardinality(S) -> S] : Range(s) = S}

AllIds == {NormalizeId(r) : r \in RawStrings}

----------------------------------------------------------------------------
(* The input as the caller means it: identifiers up to case and            *)
(* surrounding whitespace                                                  *)

CaseEq(c1, c2) == c1 = c2 \/ {c1, c2} \in {{"b", "B"}, {"e", "E"}}

NonBlank(s) == {i \in 1..Len(s) : s[i] \notin Whitespace}

\* s without its surrounding whitespace
Core(s) ==
    IF NonBlank(s) = {} THEN <<>>
    ELSE LET lo == CHOOSE i \in NonBlank(s) : \A j \in NonBlank(s) : i <= j
             hi == CHOOSE i \in NonBlank(s) : \A j \in NonBlank(s) : j <= i
         IN  SubSeq(s, lo, hi)

SameIdentifier(r1, r2) ==
    /\ Len(Core(r1)) = Len(Core(r2))
    /\ \A i \in 1..Len(Core(r1)) : CaseEq(Core(r1)[i], Core(r2)[i])

\* The raw identifiers that name the same identifier as r
ClassOf == [r \in RawStrings |-> {q \in RawStrings : SameIdentifier(q, r)}]

\* The classes of raw identifiers the input list names
Asked(raw) == {ClassOf[raw[i]] : i \in 1..Len(raw)}

----------------------------------------------------------------------------
(* Upstream outcomes                                                       *)

\* One value of the JSON body per identifier: absent, an object with a usd
\* field, an object without one, or a value that is not an object.
Entries ==
    [k : {"absent", "nousd", "notobj"}, usd : {0}] \cup [k : {"usd"}, usd : Prices]

NoBody == [x \in AllIds |-> [k |-> "absent", usd |-> 0]]

Bodies == [AllIds -> Entries]

\* "ok": 2xx with a JSON object; "badjson": 2xx whose body does not parse;
\* "429", "status": raise_for_status raises; "transport": the GET itself raises
\* (network error, or the 10 second timeout).
Outcomes == {"ok", "badjson", "429", "status", "transport"}

----------------------------------------------------------------------------
(* The pieces of get_prices                                                *)

\* Variant: the guard tests for None only, so an empty list passes it
IsEmptyInputNone(raw) == FALSE

\* Line 31: if not coin_ids
IsEmptyInput(raw) == raw = <<>>

\* Variant: the comparison is the wrong way round, an old cache being fresh
IsCacheValidInverted(c, ts, t) == (t - ts) >= CACHE_TTL /\ c # EmptyMap

\* Variant: the cache is fresh for half the window only
IsCacheValidHalfWindow(c, ts, t) == (t - ts) < CACHE_TTL \div 2 /\ c # EmptyMap

\* Variant: <= for <
IsCacheValidInclusive(c, ts, t) == (t - ts) <= CACHE_TTL /\ c # EmptyMap

\* Lines 21-24: _is_cache_valid, with c the cache, ts the timestamp, t the clock
IsCacheValid(c, ts, t) == (t - ts) < CACHE_TTL /\ c # EmptyMap

\* Variant: the call must ask for exactly the identifiers the cache holds
AllCachedWholeCache(coin_ids, c) ==
    {coin_ids[i] : i \in 1..Len(coin_ids)} = DOMAIN c

\* Line 37: all(cid in self._cache for cid in coin_ids)
AllCached(coin_ids, c) == \A i \in 1..Len(coin_ids) : coin_ids[i] \in DOMAIN c

\* Variant: a call whose identifiers are already being fetched by another call
\* is served from the cache instead of fetching again
IsFullHitOrInFlight(coin_ids, c, ts, t) ==
    \/ IsCacheValid(c, ts, t) /\ AllCached(coin_ids, c)
    \/ /\ AllCached(coin_ids, c)
       /\ \E u \in DOMAIN pending :
            /\ pending[u].pc = "awaiting"
            /\ Range(pending[u].coin_ids) \cap Range(coin_ids) # {}

\* Lines 36-38: the call is served from the cache
IsFullHit(coin_ids, c, ts, t) == IsCacheValid(c, ts, t) /\ AllCached(coin_ids, c)

\* Variant: the whole cache is returned
HitResultWholeCache(coin_ids, c) == c

\* Line 39: {cid: self._cache[cid] for cid in coin_ids}
HitResult(coin_ids, c) == [cid \in Range(coin_ids) |-> c[cid]]

\* Line 41: ",".join(coin_ids)
RECURSIVE IdsParam(_)
IdsParam(coin_ids) ==
    IF coin_ids = <<>> THEN <<>>
    ELSE IF Len(coin_ids) = 1 THEN Head(coin_ids)
    ELSE Head(coin_ids) \o <<",">> \o IdsParam(Tail(coin_ids))

\* Variant: the fallback value is written to the cache as well
RECURSIVE MergeLoopCachesFallback(_, _, _, _, _)
MergeLoopCachesFallback(coin_ids, i, data, c, prices) ==
    IF i > Len(coin_ids)
    THEN [cache |-> c, prices |-> prices, exc |-> "none"]
    ELSE LET coin_id == coin_ids[i]
             entry == data[coin_id]
             price == IF entry.k = "usd" THEN entry.usd ELSE Get(c, coin_id, 0)
         IN  IF entry.k = "notobj"
             THEN [cache |-> c, prices |-> prices, exc |-> "TypeError"]
             ELSE MergeLoopCachesFallback(coin_ids, i + 1, data,
                            Put(c, coin_id, price), Put(prices, coin_id, price))

\* Variant: line 56 as self._cache.setdefault(coin_id, price), an entry that
\* exists being kept
RECURSIVE MergeLoopKeepsExisting(_, _, _, _, _)
MergeLoopKeepsExisting(coin_ids, i, data, c, prices) ==
    IF i > Len(coin_ids)
    THEN [cache |-> c, prices |-> prices, exc |-> "none"]
    ELSE LET coin_id == coin_ids[i]
             entry == data[coin_id]
         IN  IF entry.k = "notobj"
             THEN [cache |-> c, prices |-> prices, exc |-> "TypeError"]
             ELSE IF entry.k = "usd"
             THEN MergeLoopKeepsExisting(coin_ids, i + 1, data,
                            IF coin_id \in DOMAIN c THEN c ELSE Put(c, coin_id, entry.usd),
                            Put(prices, coin_id, entry.usd))
             ELSE MergeLoopKeepsExisting(coin_ids, i + 1, data,
                            c, Put(prices, coin_id, Get(c, coin_id, 0)))

\* Variant: the merge starts from an empty cache, so that the cache holds the
\* prices of the last response only
RECURSIVE MergeLoopReplacesCache(_, _, _, _, _)
MergeLoopReplacesCache(coin_ids, i, data, c, prices) ==
    IF i > Len(coin_ids)
    THEN [cache |-> IF i = 1 THEN EmptyMap ELSE c, prices |-> prices, exc |-> "none"]
    ELSE LET coin_id == coin_ids[i]
             entry == data[coin_id]
             kept == IF i = 1 THEN EmptyMap ELSE c
         IN  IF entry.k = "notobj"
             THEN [cache |-> kept, prices |-> prices, exc |-> "TypeError"]
             ELSE IF entry.k = "usd"
             THEN MergeLoopReplacesCache(coin_ids, i + 1, data,
                            Put(kept, coin_id, entry.usd), Put(prices, coin_id, entry.usd))
             ELSE MergeLoopReplacesCache(coin_ids, i + 1, data,
                            kept, Put(prices, coin_id, Get(c, coin_id, 0)))

\* Variant: an identifier the response does not price loses its cache entry
RECURSIVE MergeLoopEvictsMissing(_, _, _, _, _)
MergeLoopEvictsMissing(coin_ids, i, data, c, prices) ==
    IF i > Len(coin_ids)
    THEN [cache |-> c, prices |-> prices, exc |-> "none"]
    ELSE LET coin_id == coin_ids[i]
             entry == data[coin_id]
         IN  IF entry.k = "notobj"
             THEN [cache |-> c, prices |-> prices, exc |-> "TypeError"]
             ELSE IF entry.k = "usd"
             THEN MergeLoopEvictsMissing(coin_ids, i + 1, data,
                            Put(c, coin_id, entry.usd), Put(prices, coin_id, entry.usd))
             ELSE MergeLoopEvictsMissing(coin_ids, i + 1, data,
                            [x \in DOMAIN c \ {coin_id} |-> c[x]],
                            Put(prices, coin_id, Get(c, coin_id, 0)))

\* Lines 51-58: the merge loop over coin_ids from index i; c is the cache and
\* prices the result built so far. `"usd" in data[coin_id]` raises TypeError
\* when data[coin_id] is not a container; the entries written before it stay.
RECURSIVE MergeLoop(_, _, _, _, _)
MergeLoop(coin_ids, i, data, c, prices) ==
    IF i > Len(coin_ids)
    THEN [cache |-> c, prices |-> prices, exc |-> "none"]
    ELSE LET coin_id == coin_ids[i]
             entry == data[coin_id]
         IN  IF entry.k = "notobj"
             THEN [cache |-> c, prices |-> prices, exc |-> "TypeError"]
             ELSE IF entry.k = "usd"
             THEN MergeLoop(coin_ids, i + 1, data,
                            Put(c, coin_id, entry.usd), Put(prices, coin_id, entry.usd))
             ELSE MergeLoop(coin_ids, i + 1, data,
                            c, Put(prices, coin_id, Get(c, coin_id, 0)))

\* Variant: identifiers that are not cached are left out
RateLimitResultCachedOnly(coin_ids, c) ==
    [cid \in Range(coin_ids) \cap DOMAIN c |-> c[cid]]

\* Line 66: 429
RateLimitResult(coin_ids, c) == [cid \in Range(coin_ids) |-> Get(c, cid, 0)]

\* Variant: an error status answers 0.0 for every identifier
StatusErrorResultZeroes(coin_ids, c) == [cid \in Range(coin_ids) |-> 0]

\* Line 68: any other error status
StatusErrorResult(coin_ids, c) == [cid \in Range(coin_ids) |-> Get(c, cid, 0)]

\* Line 72: network error or timeout
HttpErrorResult(coin_ids, c) == [cid \in Range(coin_ids) |-> Get(c, cid, 0)]

\* Lines 44-49: what the awaited GET, raise_for_status and json() raise
RaisedBy(outcome) ==
    CASE outcome = "429" -> "HTTPStatusError"
      [] outcome = "status" -> "HTTPStatusError"
      [] outcome = "transport" -> "HTTPError"
      [] outcome = "badjson" -> "ValueError"
      [] OTHER -> "none"

\* Lines 63, 70: the except clauses
Caught(exc) == exc \in {"HTTPStatusError", "HTTPError"}

----------------------------------------------------------------------------
(* State                                                                   *)

Idle == [pc |-> "idle", coin_ids |-> <<>>, param |-> <<>>]

\* The most recent get_prices step: which section ran ("call", "respond"), how
\* it ended ("suspend" at the await, "return", "raise"), the call's coin_ids,
\* the upstream outcome, the USD prices the body held for its identifiers, the
\* identifiers whose cache entry it wrote, the mapping returned, the exception
\* that escaped, the requests it issued, and (call section) the identifiers
\* the input list named.
NoEv ==
    [step |-> "none", kind |-> "none", ids |-> <<>>, asked |-> {},
     outcome |-> "none", usd |-> EmptyMap, wrote |-> {}, result |-> EmptyMap,
     exc |-> "none", sent |-> 0]

\* Nothing remembered yet. Times are 0 for "never".
\*   refreshed_at   when the last merge of a 2xx response completed
\*   priced_at[id]  when the last completed merge that priced every
\*                  identifier of its call priced id, if within the window
\*   missed_at[id]  when the last completed merge found id, which its call
\*                  asked for, absent from the response, if within the window
\*   written_at[id] when line 56 last assigned the entry of id, or a window
\*                  ago if that is longer ago
\*   touched        the waiting calls since whose start a 2xx response was
\*                  merged, to the end or in part
\*   retry          the identifiers of the last call that ended on a 429
\*                  with nothing merged since it started, until they are
\*                  asked for again or something is merged; {} for none
\*   retried        the last step was a call for the identifiers of retry
\*   reported[id]   the USD prices that the merged 2xx responses held for id
\*   order          the waiting calls in the order their requests were sent
\*   newer[t]       the identifiers assigned, while t waits, by the responses
\*                  to requests sent after the request of t
\*   overwrote      the identifiers of newer[t] that the completed merge of
\*                  the last step, the response to t, assigned
NoHist ==
    [refreshed_at |-> 0,
     priced_at |-> [id \in AllIds |-> 0],
     missed_at |-> [id \in AllIds |-> 0],
     written_at |-> [id \in AllIds |-> 0],
     touched |-> {},
     retry |-> {},
     retried |-> FALSE,
     order |-> <<>>,
     newer |-> [t \in Tasks |-> {}],
     overwrote |-> {},
     reported |-> [id \in AllIds |-> {}]]

\* The empty table, the next autoincrement id being 1
NoAssets == [rows |-> {}, next_id |-> 1]

NoReply == [op |-> "none", user |-> "none", id |-> 0, status |-> 0, rows |-> {}]

\* Variant: the constructor stamps the cache with the time of construction
InitStampedAtConstruction ==
    /\ cache = EmptyMap
    /\ cache_timestamp = StartTime
    /\ now = StartTime
    /\ pending = [t \in Tasks |-> Idle]
    /\ ev = NoEv
    /\ hist = NoHist
    /\ assets = NoAssets
    /\ reply = NoReply

\* Lines 16-19: __init__
Init ==
    /\ cache = EmptyMap
    /\ cache_timestamp = 0
    /\ now = StartTime
    /\ pending = [t \in Tasks |-> Idle]
    /\ ev = NoEv
    /\ hist = NoHist
    /\ assets = NoAssets
    /\ reply = NoReply

\* Lines 31-47: from the call to a return or to the await of the GET
Call(t, raw) ==
    /\ pending[t].pc = "idle"
    /\ LET here == [NoEv EXCEPT !.step = "call", !.asked = Asked(raw)]
       IN  IF IsEmptyInput(raw)
           THEN /\ ev' = [here EXCEPT !.kind = "return", !.result = EmptyMap]
                /\ UNCHANGED pending
           ELSE \E coin_ids \in Orderings(NormalizedSet(raw)) :
                  IF IsFullHit(coin_ids, cache, cache_timestamp, now)
                  THEN /\ ev' = [here EXCEPT !.kind = "return", !.ids = coin_ids,
                                             !.result = HitResult(coin_ids, cache)]
                       /\ UNCHANGED pending
                  ELSE /\ ev' = [here EXCEPT !.kind = "suspend", !.ids = coin_ids,
                                             !.sent = 1]
                       /\ pending' = [pending EXCEPT ![t] =
                              [pc |-> "awaiting", coin_ids |-> coin_ids,
                               param |-> IdsParam(coin_ids)]]
    /\ UNCHANGED <<cache, cache_timestamp, now>>

\* The identifiers whose entry the merge assigned (line 56)
Written(before, after) ==
    {cid \in DOMAIN after : cid \notin DOMAIN before \/ after[cid] # before[cid]}

\* The USD prices the body holds for the identifiers of coin_ids
Priced(coin_ids, body) ==
    [cid \in {x \in Range(coin_ids) : body[x].k = "usd"} |-> body[cid].usd]

\* Lines 48-72: from the outcome of the GET to a return or an escaping
\* exception. The body matters on a 2xx only, and only at the requested keys.
Respond(t, outcome, body) ==
    /\ pending[t].pc = "awaiting"
    /\ outcome # "ok" => body = NoBody
    /\ \A x \in AllIds \ Range(pending[t].coin_ids) : body[x].k = "absent"
    /\ LET coin_ids == pending[t].coin_ids
           m == MergeLoop(coin_ids, 1, body, cache, EmptyMap)
           here == [NoEv EXCEPT !.step = "respond", !.ids = coin_ids,
                                !.outcome = outcome, !.usd = Priced(coin_ids, body),
                                !.wrote = IF outcome = "ok" THEN Written(cache, m.cache)
                                          ELSE {}]
           exc == IF outcome = "ok" THEN m.exc ELSE RaisedBy(outcome)
       IN  /\ pending' = [pending EXCEPT ![t] = Idle]
           /\ IF outcome = "ok"
              THEN /\ cache' = m.cache
                   /\ IF exc = "none"
                      THEN /\ cache_timestamp' = now
                           /\ ev' = [here EXCEPT !.kind = "return", !.result = m.prices]
                      ELSE /\ ev' = [here EXCEPT !.kind = "raise", !.exc = exc]
                           /\ UNCHANGED cache_timestamp
              ELSE /\ IF Caught(exc)
                      THEN ev' = [here EXCEPT !.kind = "return", !.exc = exc, !.result =
                                    CASE outcome = "429" -> RateLimitResult(coin_ids, cache)
                                      [] outcome = "status" -> StatusErrorResult(coin_ids, cache)
                                      [] OTHER -> HttpErrorResult(coin_ids, cache)]
                      ELSE ev' = [here EXCEPT !.kind = "raise", !.exc = exc]
                   /\ UNCHANGED <<cache, cache_timestamp>>
    /\ UNCHANGED now

\* time.time() advances
Tick(d) ==
    /\ now + d <= StartTime + MaxTicks * (CACHE_TTL \div 2)
    /\ now' = now + d
    /\ UNCHANGED <<cache, cache_timestamp, pending, ev>>

\* The price client alone, with nothing remembered
Next ==
    \/ \E t \in Tasks, raw \in RawInputs : Call(t, raw) /\ UNCHANGED aside
    \/ \E t \in Tasks, outcome \in Outcomes, body \in Bodies :
          Respond(t, outcome, body) /\ UNCHANGED aside
    \/ \E d \in TickSteps : Tick(d) /\ UNCHANGED aside

Spec == Init /\ [][Next]_vars

----------------------------------------------------------------------------
(* Vocabulary of the properties                                            *)

\* A step of the call section (lines 31-47) / of the response section (48-72)
CallStep == ev'.step = "call" /\ now' = now
RespondStep == ev'.step = "respond" /\ now' = now

\* A response whose 2xx body was merged to the end (line 60 was reached)
MergeCompleted == RespondStep /\ ev'.outcome = "ok" /\ ev'.kind = "return"

\* dict.get(cid, 0.0) over the requested identifiers, written out
CachedOrZero(ids, c) ==
    [cid \in Range(ids) |-> IF cid \in DOMAIN c THEN c[cid] ELSE 0]

\* k is in normal form: no upper case, no surrounding whitespace
IsNormalId(k) ==
    /\ \A i \in 1..Len(k) : k[i] \notin {"B", "E"}
    /\ k # <<>> => k[1] \notin Whitespace /\ k[Len(k)] \notin Whitespace

\* The identifiers a comma-separated ids parameter carries
IdsIn(param) ==
    LET cuts == {0, Len(param) + 1} \cup {i \in 1..Len(param) : param[i] = ","}
    IN  {SubSeq(param, a + 1, b - 1) :
            <<a, b>> \in {x \in cuts \X cuts :
                            x[1] < x[2] /\ \A m \in cuts : ~(x[1] < m /\ m < x[2])}}

Failures == {"429", "status", "transport"}

----------------------------------------------------------------------------
(* C1. Whenever get_prices returns for a non-empty input, the keys of the  *)
(* returned mapping are exactly the trimmed, lower-cased, deduplicated     *)
(* input identifiers: the coin_ids the call section computes are in normal *)
(* form, one for each identifier the input names up to case and            *)
(* surrounding whitespace and no other, and every returned mapping,        *)
(* whatever the upstream outcome, has exactly the call's coin_ids as keys. *)
C1_KeysAreNormalizedInput ==
    /\ ev.step = "call" =>
          /\ \A k \in Range(ev.ids) :
                IsNormalId(k) /\ \E cls \in ev.asked : \A r \in cls : SameIdentifier(k, r)
          /\ \A cls \in ev.asked :
                Cardinality({k \in Range(ev.ids) : \A r \in cls : SameIdentifier(k, r)}) = 1
          /\ Cardinality(Range(ev.ids)) = Len(ev.ids)
    /\ ev.kind = "return" => DOMAIN ev.result = Range(ev.ids)
    /\ \A t \in Tasks : pending[t].pc = "awaiting" =>
          /\ \A k \in Range(pending[t].coin_ids) : IsNormalId(k)
          /\ Cardinality(Range(pending[t].coin_ids)) = Len(pending[t].coin_ids)

\* A call whose input named one identifier in two spellings was served one key.
C1_Witness ==
    /\ ev.step = "call" /\ ev.kind = "return" /\ Len(ev.ids) = 1
    /\ \E cls \in ev.asked : Cardinality(cls) = 2

(* C2. get_prices is total: every upstream failure, a malformed or         *)
(* incomplete body included, ends in a mapping returned to the caller.     *)
C2_NeverPropagates ==
    ev.step = "respond" => ev.kind = "return" /\ DOMAIN ev.result = Range(ev.ids)

(* C3. Full-hit fast path: a non-empty call made while the cache is        *)
(* non-empty, less than 60 seconds after the refresh timestamp, with every *)
(* requested identifier cached, returns exactly the cached price of each   *)
(* requested identifier, issues no request and leaves cache and timestamp  *)
(* unchanged.                                                              *)
C3_FullHitFastPath ==
    [][(/\ CallStep
        /\ ev'.ids # <<>>
        /\ cache # EmptyMap
        /\ now - cache_timestamp < 60
        /\ Range(ev'.ids) \subseteq DOMAIN cache)
       => /\ ev'.kind = "return"
          /\ ev'.result = [cid \in Range(ev'.ids) |-> cache[cid]]
          /\ ev'.sent = 0
          /\ pending' = pending
          /\ cache' = cache
          /\ cache_timestamp' = cache_timestamp]_vars

\* A fast-path return for one identifier out of a cache holding two.
C3_Witness ==
    /\ ev.step = "call" /\ ev.kind = "return" /\ Len(ev.ids) = 1
    /\ Cardinality(DOMAIN cache) = 2
    /\ now - cache_timestamp < 60
    /\ ev.result = [cid \in Range(ev.ids) |-> cache[cid]]

(* C4. A non-empty call that is not a full fresh hit (cache empty, or 60   *)
(* seconds or more since the refresh timestamp, or a requested identifier  *)
(* not cached) issues exactly one upstream request, carrying the entire    *)
(* normalized requested set; no call issues more than one request: the     *)
(* response section issues none, whatever the outcome.                     *)
C4_OneRequestForWholeSet ==
    [][/\ (/\ CallStep
           /\ ev'.ids # <<>>
           /\ \/ cache = EmptyMap
              \/ now - cache_timestamp >= 60
              \/ \E cid \in Range(ev'.ids) : cid \notin DOMAIN cache)
          => /\ ev'.kind = "suspend"
             /\ ev'.sent = 1
             /\ \E t \in Tasks :
                   /\ pending[t].pc = "idle"
                   /\ pending'[t].pc = "awaiting"
                   /\ IdsIn(pending'[t].param) = Range(ev'.ids)
                   /\ \A u \in Tasks \ {t} : pending'[u] = pending[u]
       /\ CallStep => ev'.sent \in {0, 1}
       /\ RespondStep
          => /\ ev'.sent = 0
             /\ \E t \in Tasks :
                   /\ pending[t].pc = "awaiting"
                   /\ pending'[t].pc = "idle"
                   /\ \A u \in Tasks \ {t} : pending'[u] = pending[u]]_vars

\* A request carrying two identifiers, one of them already cached, issued
\* exactly 60 seconds after the refresh.
C4_Witness ==
    /\ ev.step = "call" /\ ev.kind = "suspend" /\ Len(ev.ids) = 2
    /\ \E t \in Tasks : pending[t].pc = "awaiting" /\ IdsIn(pending[t].param) = Range(ev.ids)
    /\ Range(ev.ids) \subseteq DOMAIN cache
    /\ now - cache_timestamp = 60

(* C5. On a successful upstream response, for each requested identifier:   *)
(* a USD price in the response is written to the cache and returned;       *)
(* otherwise the returned price is the cached value at merge time, or 0 if *)
(* not cached, and the cache entry is neither created nor changed. The     *)
(* timestamp is then set to the current time, also when the response held  *)
(* none of the requested identifiers.                                      *)
C5_MergeOnSuccess ==
    [][(RespondStep /\ ev'.outcome = "ok" /\ ev'.kind = "return")
       => /\ \A cid \in Range(ev'.ids) :
                IF cid \in DOMAIN ev'.usd
                THEN /\ cid \in DOMAIN cache' /\ cache'[cid] = ev'.usd[cid]
                     /\ ev'.result[cid] = ev'.usd[cid]
                ELSE /\ ev'.result[cid] = (IF cid \in DOMAIN cache THEN cache[cid] ELSE 0)
                     /\ (cid \in DOMAIN cache') = (cid \in DOMAIN cache)
                     /\ cid \in DOMAIN cache => cache'[cid] = cache[cid]
          /\ cache_timestamp' = now]_vars

\* A response holding a price for one of two requested identifiers; the
\* other, never cached, is returned as 0 and the timestamp is advanced.
C5_Witness ==
    /\ ev.step = "respond" /\ ev.outcome = "ok" /\ ev.kind = "return"
    /\ Len(ev.ids) = 2 /\ Cardinality(DOMAIN ev.usd) = 1
    /\ \E cid \in Range(ev.ids) : cid \notin DOMAIN cache /\ ev.result[cid] = 0
    /\ cache_timestamp = now /\ now > StartTime

(* C6. On upstream failure (429, another error status, or a network error  *)
(* or timeout, the "transport" outcome) get_prices returns, for each       *)
(* requested identifier, the cached price at the time the failure is       *)
(* handled, or 0 if it is not cached; the                                  *)
(* mapping depends on the requested identifiers and the cache only, so it  *)
(* is the same for a 429 as for any other failure.                         *)
C6_FailureFallback ==
    [][(RespondStep /\ ev'.outcome \in Failures)
       => /\ ev'.kind = "return"
          /\ ev'.result = CachedOrZero(ev'.ids, cache)]_vars

\* A 429 answered with one cached price and one 0.
C6_Witness ==
    /\ ev.step = "respond" /\ ev.outcome = "429" /\ ev.kind = "return"
    /\ \E c1, c2 \in Range(ev.ids) : ev.result[c1] \in Prices /\ ev.result[c2] = 0

(* C7. The cache state is mutated on success only: a step that does not    *)
(* complete the success path leaves every entry and the timestamp as they  *)
(* were.                                                                   *)
C7_MutatedOnSuccessOnly ==
    [][(cache' # cache \/ cache_timestamp' # cache_timestamp)
       => (RespondStep /\ ev'.outcome = "ok" /\ ev'.kind = "return")]_vars

(* C8. No call ever reads a half-updated cache: at every point between two *)
(* atomic sections, where another call may read the cache, a merge that    *)
(* has written entries has completed and written its timestamp.            *)
C8_NoHalfUpdatedCache == ev.wrote # {} => ev.kind = "return"

(* C9. No single-flight protection: a non-empty call made while the cache  *)
(* is cold or stale issues its own upstream request also when another call *)
(* already has a request for an overlapping identifier set in flight, and  *)
(* both requests are then in flight together.                              *)
C9_NoSingleFlight ==
    [][(/\ CallStep
        /\ ev'.ids # <<>>
        /\ cache = EmptyMap \/ now - cache_timestamp >= 60
        /\ \E u \in Tasks : /\ pending[u].pc = "awaiting"
                            /\ Range(pending[u].coin_ids) \cap Range(ev'.ids) # {})
       => /\ ev'.kind = "suspend"
          /\ ev'.sent = 1
          /\ \E t, u \in Tasks :
                /\ t # u
                /\ pending'[t].pc = "awaiting" /\ pending'[u].pc = "awaiting"
                /\ IdsIn(pending'[t].param) \cap IdsIn(pending'[u].param) # {}]_vars

\* Two requests for the same identifier in flight at once, the identifier
\* being cached but stale.
C9_Witness ==
    /\ \A t \in Tasks : pending[t].pc = "awaiting"
    /\ \E cid \in DOMAIN cache : \A t \in Tasks : cid \in IdsIn(pending[t].param)
    /\ ev.step = "call" /\ ev.kind = "suspend"

(* C10. get_prices called with an empty input returns an empty mapping at  *)
(* once: no upstream request, cache entries and timestamp unchanged, in    *)
(* every cache state.                                                      *)
C10_EmptyInput ==
    [][(CallStep /\ ev'.asked = {})
       => /\ ev'.kind = "return"
          /\ ev'.result = EmptyMap
          /\ ev'.sent = 0
          /\ UNCHANGED <<cache, cache_timestamp, pending>>]_vars

\* An empty call returned while the cache held entries past their freshness.
C10_Witness ==
    /\ ev.step = "call" /\ ev.asked = {} /\ ev.kind = "return"
    /\ ev.result = EmptyMap
    /\ cache # EmptyMap /\ now - cache_timestamp >= 60

----------------------------------------------------------------------------
(* The price client with the times of its merges remembered, one kind of
   time in each specification                                              *)

\* Response bodies in which a key is absent, priced or not an object; a key
\* whose object has no "usd" takes the same branch of line 53 as an absent key
TrackBodies == {body \in Bodies : \A id \in AllIds : body[id].k # "nousd"}

\* Input lists without duplicates, each identifier in one spelling
PlainStrings == {<<"b">>, <<"E", " ">>}
PlainInputs == UNION {Orderings(S) : S \in SUBSET PlainStrings}

\* The merge of the response that task t waits for, as line 51-60 run it
MergeOf(t, outcome, body) ==
    LET m == MergeLoop(pending[t].coin_ids, 1, body, cache, EmptyMap)
    IN  [asked |-> Range(pending[t].coin_ids),
         done |-> outcome = "ok" /\ m.exc = "none",
         assigned |-> IF outcome = "ok"
                      THEN {id \in DOMAIN m.prices : body[id].k = "usd"}
                      ELSE {}]

\* The response section, remembering when a merge completed
Refreshed(t, outcome, body) ==
    IF MergeOf(t, outcome, body).done THEN now ELSE hist.refreshed_at

\* The response section, remembering when a completed merge that priced
\* every identifier of its call priced each identifier
RespondPriced(t, outcome, body) ==
    /\ Respond(t, outcome, body)
    /\ LET m == MergeOf(t, outcome, body)
       IN  hist' = [hist EXCEPT
             !.refreshed_at = Refreshed(t, outcome, body),
             !.priced_at = [id \in AllIds |->
                 IF m.done /\ m.assigned = m.asked /\ id \in m.asked
                 THEN now ELSE @[id]]]
    /\ UNCHANGED <<assets, reply>>

\* The response section, remembering when a completed merge found an
\* identifier of its call absent from the response
RespondMissed(t, outcome, body) ==
    /\ Respond(t, outcome, body)
    /\ LET m == MergeOf(t, outcome, body)
       IN  hist' = [hist EXCEPT
             !.refreshed_at = Refreshed(t, outcome, body),
             !.missed_at = [id \in AllIds |->
                 IF m.done /\ id \in m.asked /\ body[id].k = "absent"
                 THEN now ELSE @[id]]]
    /\ UNCHANGED <<assets, reply>>

\* The response section, remembering when line 56 assigned each entry
RespondWritten(t, outcome, body) ==
    /\ Respond(t, outcome, body)
    /\ LET m == MergeOf(t, outcome, body)
       IN  hist' = [hist EXCEPT
             !.refreshed_at = Refreshed(t, outcome, body),
             !.written_at = [id \in AllIds |->
                 IF id \in m.assigned THEN now ELSE @[id]]]
    /\ UNCHANGED <<assets, reply>>

\* A remembered time that is no longer within the window at time t is
\* forgotten (Forget) or remembered as a window old (Clip)
Forget(at, t) == IF at > 0 /\ t - at < CACHE_TTL THEN at ELSE 0
Clip(at, t) == IF at > 0 /\ t - at > CACHE_TTL THEN t - CACHE_TTL ELSE at

\* time.time() advances, and what is remembered ages
TickPriced(d) ==
    /\ Tick(d)
    /\ hist' = [hist EXCEPT !.priced_at = [id \in AllIds |-> Forget(@[id], now')]]
    /\ UNCHANGED <<assets, reply>>

TickMissed(d) ==
    /\ Tick(d)
    /\ hist' = [hist EXCEPT !.missed_at = [id \in AllIds |-> Forget(@[id], now')]]
    /\ UNCHANGED <<assets, reply>>

TickWritten(d) ==
    /\ Tick(d)
    /\ hist' = [hist EXCEPT !.written_at = [id \in AllIds |-> Clip(@[id], now')]]
    /\ UNCHANGED <<assets, reply>>

NextPriced ==
    \/ \E t \in Tasks, raw \in PlainInputs : Call(t, raw) /\ UNCHANGED aside
    \/ \E t \in Tasks, outcome \in Outcomes, body \in TrackBodies :
          RespondPriced(t, outcome, body)
    \/ \E d \in TickSteps : TickPriced(d)

NextMissed ==
    \/ \E t \in Tasks, raw \in PlainInputs : Call(t, raw) /\ UNCHANGED aside
    \/ \E t \in Tasks, outcome \in Outcomes, body \in TrackBodies :
          RespondMissed(t, outcome, body)
    \/ \E d \in TickSteps : TickMissed(d)

NextWritten ==
    \/ \E t \in Tasks, raw \in PlainInputs : Call(t, raw) /\ UNCHANGED aside
    \/ \E t \in Tasks, outcome \in Outcomes, body \in TrackBodies :
          RespondWritten(t, outcome, body)
    \/ \E d \in TickSteps : TickWritten(d)

SpecPriced == Init /\ [][NextPriced]_vars
SpecMissed == Init /\ [][NextMissed]_vars
SpecWritten == Init /\ [][NextWritten]_vars

\* A call that the fast path served: it returned the cached prices of its
\* identifiers, sent nothing and left the client as it was
ServedFromCache ==
    /\ ev'.kind = "return" /\ ev'.sent = 0
    /\ ev'.result = [id \in Range(ev'.ids) |-> cache[id]]
    /\ UNCHANGED <<cache, cache_timestamp, pending>>

\* C11: a call whose identifiers were each priced by a completed merge that
\* priced every identifier of its call, less than 60 seconds before the call
\* starts, sends no request and returns the cached prices, whatever happened
\* in between.
C11_FreshAfterFullRefresh ==
    [][(/\ CallStep /\ ev'.ids # <<>>
        /\ \A id \in Range(ev'.ids) :
              hist.priced_at[id] > 0 /\ now - hist.priced_at[id] < 60)
       => ServedFromCache]_vars

\* The fast path has just served two identifiers that one call had priced;
\* since then the clock moved, another merge completed and a call failed.
C11_Witness ==
    /\ ev.step = "call" /\ ev.kind = "return" /\ Len(ev.ids) = 2
    /\ \E id \in Range(ev.ids) :
          /\ hist.priced_at[id] > 0 /\ hist.priced_at[id] < now
          /\ hist.priced_at[id] < hist.refreshed_at

\* Less than 60 seconds have passed since the time at, which is not "never"
Within60(at) == at > 0 /\ now - at < 60

\* C13, as stated: a call for one identifier that a completed merge found
\* absent from its response less than 60 seconds earlier sends no request.
C13_MissingNotRetried ==
    [][(/\ CallStep
        /\ \E id \in AllIds :
              Range(ev'.ids) = {id} /\ Within60(hist.missed_at[id]))
       => ev'.sent = 0]_vars

\* C13, amended: a call that asks for an identifier which a completed merge
\* found absent less than 60 seconds earlier is served from the cache, with
\* no request, when every identifier it asks for has a cache entry; when one
\* of them has none, it sends a request again.
C13_MissingNotRetriedIfCached ==
    [][(/\ CallStep
        /\ \E id \in Range(ev'.ids) : Within60(hist.missed_at[id]))
       => IF Range(ev'.ids) \subseteq DOMAIN cache
          THEN ServedFromCache
          ELSE ev'.kind = "suspend" /\ ev'.sent = 1]_vars

\* The fast path has just served, with its old price, an identifier that
\* the last completed merge had asked for and not found, the clock having
\* moved since.
C13_Witness ==
    /\ ev.step = "call" /\ ev.kind = "return" /\ ev.sent = 0
    /\ \E id \in Range(ev.ids) :
          /\ Within60(hist.missed_at[id]) /\ hist.missed_at[id] < now
          /\ ev.result[id] = cache[id]

\* C16: a call all of whose identifiers have been written, one of them 60
\* seconds ago or more, is served from the cache with no request when some
\* merge completed less than 60 seconds ago.
C16_SharedTimestampServesOldEntries ==
    [][(/\ CallStep /\ ev'.ids # <<>>
        /\ \A id \in Range(ev'.ids) : hist.written_at[id] > 0
        /\ \E id \in Range(ev'.ids) : now - hist.written_at[id] >= 60
        /\ Within60(hist.refreshed_at))
       => ServedFromCache]_vars

\* The fast path has just returned a price that was written 60 seconds ago
\* or more.
C16_Witness ==
    /\ ev.step = "call" /\ ev.kind = "return" /\ ev.sent = 0
    /\ \E id \in Range(ev.ids) :
          /\ hist.written_at[id] > 0 /\ now - hist.written_at[id] >= 60
          /\ ev.result[id] = cache[id]

----------------------------------------------------------------------------
(* The price client with the calls that ended on a 429 remembered         *)

\* The call section, remembering that the call was made
CallRetry(t, raw) ==
    /\ Call(t, raw)
    /\ hist' = [hist EXCEPT !.touched = @ \ {t},
                            !.retry = IF Range(ev'.ids) = @ THEN {} ELSE @,
                            !.retried = ev'.ids # <<>> /\ Range(ev'.ids) = hist.retry]
    /\ UNCHANGED <<assets, reply>>

\* The response section, remembering which waiting calls saw a merge and
\* which identifier sets a 429 left to be asked for again
RespondRetry(t, outcome, body) ==
    /\ Respond(t, outcome, body)
    /\ LET m == MergeOf(t, outcome, body)
           merged == m.done \/ m.assigned # {}
       IN  hist' = [hist EXCEPT
             !.touched = IF merged
                         THEN {u \in Tasks \ {t} : pending[u].pc = "awaiting"}
                         ELSE @ \ {t},
             !.retry = IF merged THEN {}
                       ELSE IF outcome = "429" /\ t \notin hist.touched
                       THEN m.asked
                       ELSE @,
             !.retried = FALSE]
    /\ UNCHANGED <<assets, reply>>

NextRetry ==
    \/ \E t \in Tasks, raw \in PlainInputs : CallRetry(t, raw)
    \/ \E t \in Tasks, outcome \in Outcomes, body \in TrackBodies :
          RespondRetry(t, outcome, body)
    \/ \E d \in TickSteps : Tick(d) /\ UNCHANGED aside

SpecRetry == Init /\ [][NextRetry]_vars

\* C12, as stated: a 429 leaves the timestamp as it was, and when the last
\* get_prices step before a call was the 429 response of a call for the same
\* identifiers, the call sends a request.
C12_RetryAfter429 ==
    [][/\ (RespondStep /\ ev'.outcome = "429") => cache_timestamp' = cache_timestamp
       /\ (/\ ev.step = "respond" /\ ev.outcome = "429"
           /\ CallStep /\ Range(ev'.ids) = Range(ev.ids))
          => ev'.sent = 1]_vars

\* C12, amended: a 429 leaves the timestamp and the cache as they were, and
\* the next call for the identifiers of a call that ended on a 429 sends a
\* request when no 2xx response was merged, to the end or in part, since
\* that call started.
C12_RetryAfter429IfNothingMerged ==
    [][/\ (RespondStep /\ ev'.outcome = "429")
          => UNCHANGED <<cache, cache_timestamp>>
       /\ (CallStep /\ ev'.ids # <<>> /\ Range(ev'.ids) = hist.retry)
          => ev'.kind = "suspend" /\ ev'.sent = 1]_vars

\* A call has just sent a request for identifiers that are all cached, the
\* call before it for the same identifiers having ended on a 429.
C12_Witness ==
    /\ ev.step = "call" /\ hist.retried /\ ev.sent = 1
    /\ Range(ev.ids) \subseteq DOMAIN cache

----------------------------------------------------------------------------
(* The price client under well-formed responses, with the prices that the
   upstream reported remembered                                            *)

\* A 2xx body is a JSON object whose values are objects; the other outcomes
\* are HTTP errors and transport errors
WellFormedBodies == {body \in Bodies : \A id \in AllIds : body[id].k # "notobj"}
WellFormedOutcomes == Outcomes \ {"badjson"}

\* The response section, remembering the prices the response reported
RespondReported(t, outcome, body) ==
    /\ Respond(t, outcome, body)
    /\ hist' = [hist EXCEPT !.reported = [id \in AllIds |->
          IF outcome = "ok" /\ id \in Range(pending[t].coin_ids) /\ body[id].k = "usd"
          THEN @[id] \cup {body[id].usd}
          ELSE @[id]]]
    /\ UNCHANGED <<assets, reply>>

NextReported ==
    \/ \E t \in Tasks, raw \in PlainInputs : Call(t, raw) /\ UNCHANGED aside
    \/ \E t \in Tasks, outcome \in WellFormedOutcomes, body \in WellFormedBodies :
          RespondReported(t, outcome, body)
    \/ \E d \in TickSteps : Tick(d) /\ UNCHANGED aside

SpecReported == Init /\ [][NextReported]_vars

\* C20: under well-formed responses every cached price of an identifier is
\* a USD price that a merged 2xx response held for it, and so is every
\* returned price, except that 0 is returned for an identifier for which no
\* merged response has held a USD price, and for no other.
C20_PriceProvenance ==
    /\ \A id \in DOMAIN cache : cache[id] \in hist.reported[id]
    /\ ev.kind = "return" =>
          \A id \in DOMAIN ev.result :
             IF hist.reported[id] = {} THEN ev.result[id] = 0
             ELSE ev.result[id] \in hist.reported[id]

\* A call that failed has just returned, for one identifier, one of the two
\* prices the upstream has reported for it, and 0 for the other identifier,
\* which the responses merged so far never priced.
C20_Witness ==
    /\ ev.step = "respond" /\ ev.outcome \in Failures /\ ev.kind = "return"
    /\ \E id \in DOMAIN ev.result :
          ev.result[id] = 0 /\ hist.reported[id] = {}
    /\ \E id \in DOMAIN ev.result :
          Cardinality(hist.reported[id]) = 2 /\ ev.result[id] \in hist.reported[id]

----------------------------------------------------------------------------
(* The price client with the order of its requests remembered             *)

\* The call section, remembering that the request of t is the last one sent
CallOrder(t, raw) ==
    /\ Call(t, raw)
    /\ hist' = [hist EXCEPT
          !.order = IF ev'.kind = "suspend" THEN Append(@, t) ELSE @,
          !.newer = [@ EXCEPT ![t] = {}],
          !.overwrote = {}]
    /\ UNCHANGED <<assets, reply>>

\* The waiting calls whose requests were sent before the request of t
SentBefore(t) ==
    {hist.order[i] : i \in {j \in 1..Len(hist.order) :
                               \E k \in j + 1..Len(hist.order) : hist.order[k] = t}}

\* The response section, remembering what it assigned for the calls that
\* sent their requests earlier and still wait
RespondOrder(t, outcome, body) ==
    /\ Respond(t, outcome, body)
    /\ LET m == MergeOf(t, outcome, body)
       IN  hist' = [hist EXCEPT
             !.order = SelectSeq(@, LAMBDA u : u # t),
             !.newer = [u \in Tasks |->
                 IF u = t THEN {}
                 ELSE IF u \in SentBefore(t) THEN @[u] \cup m.assigned
                 ELSE @[u]],
             !.overwrote = IF m.done THEN hist.newer[t] \cap m.assigned ELSE {}]
    /\ UNCHANGED <<assets, reply>>

NextOrder ==
    \/ \E t \in Tasks, raw \in PlainInputs : CallOrder(t, raw)
    \/ \E t \in Tasks, outcome \in Outcomes, body \in TrackBodies :
          RespondOrder(t, outcome, body)
    \/ \E d \in TickSteps : Tick(d) /\ UNCHANGED aside

SpecOrder == Init /\ [][NextOrder]_vars

\* C19: when the merge of the response to a call completes, the cache holds,
\* for every identifier the response prices, the price of that response, and
\* the timestamp is the time of that merge; this is so for the identifiers
\* that the response to a request sent later has already written.
C19_LastResponseWins ==
    [][\A t \in Tasks :
         (/\ pending[t].pc = "awaiting" /\ pending'[t].pc = "idle"
          /\ MergeCompleted)
         => /\ \A id \in DOMAIN ev'.usd : cache'[id] = ev'.usd[id]
            /\ \A id \in hist.newer[t] \cap Range(ev'.ids) :
                  cache'[id] = IF id \in DOMAIN ev'.usd THEN ev'.usd[id] ELSE cache[id]
            /\ cache_timestamp' = now]_vars

\* The response to the request that was sent first has just been merged
\* after the response to the request sent second, and has replaced the price
\* which that one wrote, at a later time.
C19_Witness ==
    /\ ev.step = "respond" /\ ev.kind = "return"
    /\ hist.overwrote \cap ev.wrote # {}
    /\ cache_timestamp = now /\ now > StartTime
    /\ \A t \in Tasks : pending[t].pc = "idle"

\* C14: the refresh timestamp is 0 until a fetch has succeeded; a step that
\* completes the merge of a successful response sets it to the time of that
\* step, every other step leaves it as it is, and it never decreases.
C14_TimestampOfLastCompletedMerge ==
    /\ cache_timestamp = 0
    /\ [][/\ IF MergeCompleted THEN cache_timestamp' = now
                                ELSE cache_timestamp' = cache_timestamp
          /\ cache_timestamp' >= cache_timestamp]_vars

\* A failed call has just ended, later than the last successful merge, and
\* the timestamp is still the time of that merge.
C14_Witness ==
    /\ ev.step = "respond" /\ ev.outcome \in Failures
    /\ cache_timestamp > 0 /\ cache_timestamp < now

\* C15: the cache starts empty; no step removes a key; a step that adds or
\* changes an entry is the merge of a 2xx response, for an identifier of that
\* call which the response prices, and it stores that price.
C15_NeverEvictsWritesOnMerge ==
    /\ cache = EmptyMap
    /\ [][/\ DOMAIN cache \subseteq DOMAIN cache'
          /\ \A id \in Written(cache, cache') :
                /\ RespondStep /\ ev'.outcome = "ok"
                /\ id \in Range(ev'.ids) /\ id \in DOMAIN ev'.usd
                /\ cache'[id] = ev'.usd[id]]_vars

\* A merge has just replaced one entry and left another, which its response
\* does not price, in place.
C15_Witness ==
    /\ ev.step = "respond" /\ ev.outcome = "ok" /\ ev.kind = "return"
    /\ Len(ev.ids) = 2 /\ Cardinality(ev.wrote) = 1
    /\ DOMAIN cache = Range(ev.ids)
    /\ DOMAIN ev.usd = ev.wrote

\* A call that was waiting for its response has ended
CallEnded == \E t \in Tasks : pending[t].pc = "awaiting" /\ pending'[t].pc = "idle"

\* C17: a get_prices call that has issued its request ends by returning a
\* result, whatever the response is.
C17_EveryCallReturns == [][CallEnded => ev'.kind = "return"]_vars

\* The HTTP client has a 10 second timeout (line 17): a request that was sent
\* gets an outcome, so the response section of a waiting call runs.
SpecLive ==
    Spec /\ \A t \in Tasks :
              WF_vars(\E outcome \in Outcomes, body \in Bodies :
                          Respond(t, outcome, body) /\ UNCHANGED aside)

\* A call that waits for its response ends: get_prices has no loop but the
\* one over the finite list coin_ids, and its one await is bounded by line 17.
EveryCallEnds == \A t \in Tasks : pending[t].pc = "awaiting" ~> pending[t].pc = "idle"

----------------------------------------------------------------------------
(* The assets table and its requests (app/crud/asset.py, app/routes/assets.py).
   A request runs in one session that is committed when the route returns
   (app/core/database.py, lines 23-33); each request is one step here. Row ids
   come from the autoincrement key and are never given out twice.           *)

MaxAssets == 2
Users == {"ua", "ub"}
Amounts == {1, 2}
None == 0

\* Lines 10-15 of crud/asset.py: select ... where user_id == user_id
get_user_assets(rows, user_id) == {r \in rows : r.user_id = user_id}

\* Variant: the row is looked up by its id alone
get_asset_by_id_any_owner(rows, asset_id, user_id) == {r \in rows : r.id = asset_id}

\* Lines 18-25 of crud/asset.py: the row with this id and this owner, if any
get_asset_by_id(rows, asset_id, user_id) ==
    {r \in rows : r.id = asset_id /\ r.user_id = user_id}

\* GET /assets (routes/assets.py, lines 24-30): the caller's rows
GetAssets(u) ==
    /\ reply' = [op |-> "list", user |-> u, id |-> 0, status |-> 200,
                 rows |-> get_user_assets(assets.rows, u)]
    /\ UNCHANGED assets

\* POST /assets (routes lines 64-73, crud lines 28-40)
CreateAsset(u, quantity, buy_price) ==
    /\ assets.next_id <= MaxAssets
    /\ LET db_asset == [id |-> assets.next_id, user_id |-> u,
                        quantity |-> quantity, buy_price |-> buy_price]
       IN  /\ assets' = [rows |-> assets.rows \cup {db_asset},
                         next_id |-> assets.next_id + 1]
           /\ reply' = [op |-> "create", user |-> u, id |-> db_asset.id,
                        status |-> 201, rows |-> {db_asset}]

\* PUT /assets/{asset_id} (routes lines 76-89, crud lines 43-58)
UpdateAsset(u, asset_id, quantity, buy_price) ==
    LET found == get_asset_by_id(assets.rows, asset_id, u)
    IN  IF found = {}
        THEN /\ reply' = [op |-> "update", user |-> u, id |-> asset_id,
                          status |-> 404, rows |-> {}]
             /\ UNCHANGED assets
        ELSE LET old == CHOOSE r \in found : TRUE
                 new == [old EXCEPT
                           !.quantity = IF quantity # None THEN quantity ELSE @,
                           !.buy_price = IF buy_price # None THEN buy_price ELSE @]
             IN  /\ assets' = [assets EXCEPT !.rows = (@ \ {old}) \cup {new}]
                 /\ reply' = [op |-> "update", user |-> u, id |-> asset_id,
                              status |-> 200, rows |-> {new}]

\* DELETE /assets/{asset_id} (routes lines 92-104, crud lines 61-66)
DeleteAsset(u, asset_id) ==
    LET gone == {r \in assets.rows : r.id = asset_id /\ r.user_id = u}
    IN  /\ assets' = [assets EXCEPT !.rows = @ \ gone]
        /\ reply' = [op |-> "delete", user |-> u, id |-> asset_id,
                     status |-> IF Cardinality(gone) > 0 THEN 204 ELSE 404,
                     rows |-> {}]

NextAssets ==
    \/ \E u \in Users : GetAssets(u) /\ UNCHANGED prices_state
    \/ \E u \in Users, q \in Amounts, p \in Amounts :
          CreateAsset(u, q, p) /\ UNCHANGED prices_state
    \/ \E u \in Users, id \in 1..MaxAssets, q \in Amounts \cup {None},
          p \in Amounts \cup {None} :
          UpdateAsset(u, id, q, p) /\ UNCHANGED prices_state
    \/ \E u \in Users, id \in 1..MaxAssets : DeleteAsset(u, id) /\ UNCHANGED prices_state

SpecAssets == Init /\ [][NextAssets]_vars

\* The rows of the table that user u owns
OwnedBy(u) == {r \in assets.rows : r.user_id = u}

\* C18: a listing holds only rows of the caller; a step that changes or
\* removes a row is an update or delete by the row's owner naming the row's
\* id; a 404 leaves the table as it was; the rows of every user other than
\* the caller of a step are the same after the step as before it.
C18_OwnershipIsolation ==
    /\ [](reply.op = "list" => \A r \in reply.rows : r.user_id = reply.user)
    /\ [][/\ \A r \in assets.rows \ assets'.rows :
                /\ reply'.op \in {"update", "delete"}
                /\ reply'.id = r.id /\ reply'.user = r.user_id
                /\ reply'.status # 404
          /\ reply'.status = 404 => assets'.rows = assets.rows
          /\ \A u \in Users : u # reply'.user => OwnedBy(u)' = OwnedBy(u)]_vars

\* A user has just asked to update a row that exists and belongs to the
\* other user, and got 404.
C18_Witness ==
    /\ reply.op = "update" /\ reply.status = 404
    /\ \E r \in assets.rows : r.id = reply.id /\ r.user_id # reply.user

====
